---------------------------- MODULE Spec2Model ----------------------------
(***************************************************************************)
(* qsum: type-aware checksums of Python values.                            *)
(*                                                                         *)
(* A checksum is a byte string  prefix (2 bytes) || digest (N bytes).      *)
(* Bytes are sequences of integers in 0..255, a str is a sequence of       *)
(* one-character strings, a Python value is a record                       *)
(*   [type |-> its class, val |-> the bytes of a scalar,                   *)
(*    items |-> the elements of a container in iteration order].           *)
(* A dict holds its (key, value) pairs, each a 2-tuple, in insertion       *)
(* order; a set holds its elements in the order its iteration yields them. *)
(***************************************************************************)
EXTENDS Integers, Sequences, FiniteSets, TLC

VARIABLES obj, hash_algo, allow_unregistered, depends_on, result, instances, last

vars == <<obj, hash_algo, allow_unregistered, depends_on, result, instances, last>>

-----------------------------------------------------------------------------
(* Bounds of the model *)

\* longest container drawn as an input
MaxLen == 2

\* deepest chain of nested one-entry dicts drawn as an input
MaxDepth == 3

\* most Checksum objects alive at once
MaxInstances == 2

-----------------------------------------------------------------------------
(* Byte strings *)

Byte == 0..255

RECURSIVE Concat(_)
\* b''.join(seq) : the concatenation of a sequence of byte strings
Concat(seq) ==
    IF seq = <<>> THEN <<>> ELSE Head(seq) \o Concat(Tail(seq))

RECURSIVE BytesLess(_, _)
\* a < b on byte strings: lexicographic, a proper prefix is smaller
BytesLess(a, b) ==
    IF b = <<>> THEN FALSE
    ELSE IF a = <<>> THEN TRUE
    ELSE IF Head(a) # Head(b) THEN Head(a) < Head(b)
    ELSE BytesLess(Tail(a), Tail(b))

RECURSIVE Insert(_, _)
Insert(x, seq) ==
    IF seq = <<>> THEN <<x>>
    ELSE IF BytesLess(x, Head(seq)) THEN <<x>> \o seq
    ELSE <<Head(seq)>> \o Insert(x, Tail(seq))

RECURSIVE sorted(_)
\* sorted(list of bytes)
sorted(seq) ==
    IF seq = <<>> THEN <<>> ELSE Insert(Head(seq), sorted(Tail(seq)))

-----------------------------------------------------------------------------
(* The digest primitive: a named algorithm from bytes to a digest of fixed  *)
(* length.  Each algorithm is a bank of polynomial accumulators, three     *)
(* bytes of digest per accumulator.                                        *)

DEFAULT_HASH_ALGO == "sha256"

HashAlgos == {"sha256", "md5"}

HashBanks(algo) ==
    IF algo = "sha256"
    THEN << <<257, 8355961, 7>>, <<263, 8165329, 11>>, <<269, 7983181, 13>> >>
    ELSE << <<263, 8165329, 5>>, <<257, 8355961, 3>> >>

DigestLength(algo) == 3 * Len(HashBanks(algo))

RECURSIVE Acc(_, _, _)
Acc(h, b, bank) ==
    IF b = <<>> THEN h
    ELSE Acc((h * bank[1] + Head(b) + 1) % bank[2], Tail(b), bank)

Bytes3(h) == <<h \div 65536, (h \div 256) % 256, h % 256>>

Hash(algo, b) ==
    LET banks == HashBanks(algo)
    IN  Concat([i \in DOMAIN banks |-> Bytes3(Acc(banks[i][3], b, banks[i]))])

-----------------------------------------------------------------------------
(* The type registry *)

PREFIX_BYTES == 2

RESERVED_INVALID_PREFIX == <<255, 255>>

\* mutant: deque is given the prefix of list
TYPE_TO_PREFIX_dup ==
    << <<"int",       <<0, 0>> >>,
       <<"str",       <<0, 1>> >>,
       <<"bool",      <<0, 2>> >>,
       <<"bytes",     <<0, 3>> >>,
       <<"float",     <<0, 4>> >>,
       <<"complex",   <<0, 5>> >>,
       <<"bytearray", <<0, 6>> >>,
       <<"type",      <<0, 7>> >>,
       <<"tuple",     <<1, 0>> >>,
       <<"list",      <<1, 1>> >>,
       <<"deque",     <<1, 1>> >>,
       <<"dict",      <<1, 3>> >> >>

\* the dict literal, entry by entry: <<type, prefix>>
TYPE_TO_PREFIX ==
    << <<"int",       <<0, 0>> >>,
       <<"str",       <<0, 1>> >>,
       <<"bool",      <<0, 2>> >>,
       <<"bytes",     <<0, 3>> >>,
       <<"float",     <<0, 4>> >>,
       <<"complex",   <<0, 5>> >>,
       <<"bytearray", <<0, 6>> >>,
       <<"type",      <<0, 7>> >>,
       <<"tuple",     <<1, 0>> >>,
       <<"list",      <<1, 1>> >>,
       <<"deque",     <<1, 2>> >>,
       <<"dict",      <<1, 3>> >> >>

\* the last entry of a dict literal or comprehension wins
LastIndex(S) == CHOOSE i \in S : \A j \in S : j <= i

TableKeys == {TYPE_TO_PREFIX[i][1] : i \in DOMAIN TYPE_TO_PREFIX}

\* TYPE_TO_PREFIX[t]
TableGet(t) ==
    TYPE_TO_PREFIX[LastIndex({i \in DOMAIN TYPE_TO_PREFIX : TYPE_TO_PREFIX[i][1] = t})][2]

\* {v: k for k, v in TYPE_TO_PREFIX.items()}
PREFIX_TO_TYPE ==
    LET keys  == TableKeys
        first(t) == CHOOSE i \in DOMAIN TYPE_TO_PREFIX :
                       /\ TYPE_TO_PREFIX[i][1] = t
                       /\ \A j \in DOMAIN TYPE_TO_PREFIX : TYPE_TO_PREFIX[j][1] = t => i <= j
        \* a dict keeps a key at the position of its first insertion
        later(t, u) == first(t) > first(u)
        vals  == {TableGet(t) : t \in keys}
    IN  [p \in vals |->
            CHOOSE t \in keys :
               /\ TableGet(t) = p
               /\ \A u \in keys : TableGet(u) = p => ~later(u, t)]

\* the reserved marker of a type without an entry of its own
UNREGISTERED_TYPE_PREFIX == <<255, 254>>

SPECIAL_PREFIXES == {RESERVED_INVALID_PREFIX, UNREGISTERED_TYPE_PREFIX}

\* types the table of type_map.py does not list but the library checksums
\* under their own prefix: the built-in set, functions and the checksum
\* collection
EXTRA_TYPE_TO_PREFIX ==
    << <<"set", <<1, 4>> >>, <<"function", <<2, 0>> >>, <<"ChecksumCollection", <<255, 0>> >> >>

ExtraKeys == {EXTRA_TYPE_TO_PREFIX[i][1] : i \in DOMAIN EXTRA_TYPE_TO_PREFIX}

ExtraGet(t) ==
    EXTRA_TYPE_TO_PREFIX[CHOOSE i \in DOMAIN EXTRA_TYPE_TO_PREFIX : EXTRA_TYPE_TO_PREFIX[i][1] = t][2]

\* families of container types
CONTAINER_TYPES == {"tuple", "list", "deque", "set", "dict"}

MAPPABLE_CONTAINER_TYPES == {"tuple", "list", "deque", "set"}

UNORDERED_CONTAINER_TYPES == {"set"}

ALL_SUBCLASS_TYPES == CONTAINER_TYPES

DEFAULT_ALLOW_UNREGISTERED == FALSE

\* the direct base class of the user classes of the model
Base(t) ==
    IF t \in {"ListA", "ListB"} THEN "list" ELSE "object"

\* issubclass(t, types)
is_sub_class(t, types) == t \in types \/ Base(t) \in types

Types == TableKeys \cup ExtraKeys \cup {"ListA", "ListB", "object"}

\* the identity of a type, as folded into the digest of an unregistered type
TypeIdentity(t) ==
    CASE t = "ListA" -> <<76, 65>>
      [] t = "ListB" -> <<76, 66>>
      [] OTHER       -> <<63>>

Ok(b) == [ok |-> TRUE, bytes |-> b, error |-> ""]

Raise(e) == [ok |-> FALSE, bytes |-> <<>>, error |-> e]

\* type_to_prefix(the_type, allow_unregistered)
type_to_prefix(the_type, allow) ==
    IF the_type \in TableKeys THEN Ok(TableGet(the_type))
    ELSE IF the_type \in ExtraKeys THEN Ok(ExtraGet(the_type))
    ELSE IF allow /\ is_sub_class(the_type, ALL_SUBCLASS_TYPES)
         THEN Ok(UNREGISTERED_TYPE_PREFIX)
    ELSE Raise("UnsupportedType")

\* checksum_to_type(checksum_bytes): the type of the leading prefix
checksum_to_type(b) ==
    LET p == IF Len(b) >= PREFIX_BYTES THEN SubSeq(b, 1, PREFIX_BYTES) ELSE b
    IN  IF p = RESERVED_INVALID_PREFIX THEN [ok |-> FALSE, type |-> "", error |-> "InvalidChecksum"]
        ELSE IF p \in DOMAIN PREFIX_TO_TYPE THEN [ok |-> TRUE, type |-> PREFIX_TO_TYPE[p], error |-> ""]
        ELSE IF \E i \in DOMAIN EXTRA_TYPE_TO_PREFIX : EXTRA_TYPE_TO_PREFIX[i][2] = p
             THEN [ok |-> TRUE,
                   type |-> EXTRA_TYPE_TO_PREFIX[CHOOSE i \in DOMAIN EXTRA_TYPE_TO_PREFIX :
                                                    EXTRA_TYPE_TO_PREFIX[i][2] = p][1],
                   error |-> ""]
        ELSE [ok |-> FALSE, type |-> "", error |-> "InvalidChecksum"]

\* data_checksum(obj, obj_type, hash_algo, checksum_type): the digest of the
\* value's bytes, with the identity of checksum_type folded in when given
\* (checksum_type = "" stands for None)
data_checksum(value_bytes, obj_type, algo, checksum_type) ==
    Hash(algo, IF checksum_type = "" THEN value_bytes
               ELSE TypeIdentity(checksum_type) \o value_bytes)

-----------------------------------------------------------------------------
(* Python values *)

Scalar(t, v) == [type |-> t, val |-> v, items |-> <<>>]

Container(t, its) == [type |-> t, val |-> <<>>, items |-> its]

Int1  == Scalar("int", <<1>>)
Int2  == Scalar("int", <<2>>)
StrA  == Scalar("str", <<97>>)
BoolT == Scalar("bool", <<1>>)
Float3 == Scalar("float", <<64, 8>>)

\* a dict of the given (key, value) pairs, in insertion order
Dict(pairs) ==
    Container("dict", [i \in DOMAIN pairs |-> Container("tuple", pairs[i])])

-----------------------------------------------------------------------------
(* Dependencies *)

\* depends_on=None
NoDependsOn == [none |-> TRUE, ids |-> {}]

DependsOn(ids) == [none |-> FALSE, ids |-> ids]

DependencyNames == {"pytest", "setuptools"}

\* resolve_dependency(name): the distribution with its installed version
resolve_dependency(name) ==
    IF name = "pytest" THEN Scalar("str", <<112, 61, 54>>)
    ELSE Scalar("str", <<115, 61, 52>>)

RECURSIVE SetToSeq(_)
SetToSeq(S) ==
    IF S = {} THEN <<>>
    ELSE LET x == CHOOSE y \in S : TRUE IN <<x>> \o SetToSeq(S \ {x})

\* resolve_dependencies(depends_on): the set of the resolved dependencies
resolve_dependencies(ids) ==
    Container("set", SetToSeq({resolve_dependency(n) : n \in ids}))

-----------------------------------------------------------------------------
(* qsum.core.logic *)

\* the first exception raised while the elements are checksummed in order
FirstError(rs) ==
    rs[CHOOSE i \in DOMAIN rs : ~rs[i].ok /\ \A j \in DOMAIN rs : j < i => rs[j].ok]

\* mutant: an empty collection of dependencies is not folded in
FoldsDependencies_nonempty(deps) == ~deps.none /\ deps.ids # {}

\* "if depends_on is not None": whether the call folds its dependencies in
FoldsDependencies(deps) == ~deps.none

\* mutant: the folded checksum carries the prefix of the wrapping tuple
FoldedChecksumType_tuple(obj_type) == "tuple"

\* the type whose prefix the dependency-folded checksum carries
FoldedChecksumType(obj_type) == obj_type

\* mutant: the element checksums are never sorted
JoinChecksums_unsorted(obj_type, bs) == Concat(bs)

\* mutant: the element checksums are always sorted
JoinChecksums_sorted(obj_type, bs) == Concat(sorted(bs))

\* the element checksums of a mappable container, combined: sorted as raw
\* bytes for an unordered container, in iteration order otherwise
JoinChecksums(obj_type, bs) ==
    IF is_sub_class(obj_type, UNORDERED_CONTAINER_TYPES)
    THEN Concat(sorted(bs))
    ELSE Concat(bs)

\* mutant: the prefix of the type whose logic checksummed the container
ContainerPrefixType_obj(obj_type, checksum_type) == obj_type

\* the type whose prefix a container's checksum carries
ContainerPrefixType(obj_type, checksum_type) == checksum_type

\* mutant: the items of a dict are checksummed in insertion order
DictItemsType_tuple == "tuple"

\* the type whose logic checksums the items of a dict
DictItemsType == "set"

\* mutant: the identity of the checksum type is never passed to the digest
DigestChecksumType_none(prefix, checksum_type) == ""

\* "checksum_type=checksum_type if prefix == UNREGISTERED_TYPE_PREFIX else
\* None": the type whose identity is passed to data_checksum ("" for None)
DigestChecksumType(prefix, checksum_type) ==
    IF prefix = UNREGISTERED_TYPE_PREFIX THEN checksum_type ELSE ""

RECURSIVE _checksum(_, _, _, _, _, _)
_checksum(o, obj_type, checksum_type, algo, allow, deps) ==
    IF FoldsDependencies(deps)
    THEN _checksum(Container("tuple", <<o, resolve_dependencies(deps.ids)>>),
                   "tuple", FoldedChecksumType(obj_type), algo, allow, NoDependsOn)
    ELSE IF is_sub_class(obj_type, CONTAINER_TYPES)
    THEN IF is_sub_class(obj_type, MAPPABLE_CONTAINER_TYPES)
         THEN LET rs == [i \in DOMAIN o.items |->
                            _checksum(o.items[i], o.items[i].type, o.items[i].type,
                                      algo, allow, NoDependsOn)]
                  bs == [i \in DOMAIN rs |-> rs[i].bytes]
                  checksum_bytes == JoinChecksums(obj_type, bs)
                  prefix == type_to_prefix(ContainerPrefixType(obj_type, checksum_type), allow)
              IN  IF \E i \in DOMAIN rs : ~rs[i].ok THEN FirstError(rs)
                  ELSE IF ~prefix.ok THEN prefix
                  ELSE Ok(prefix.bytes \o
                          data_checksum(checksum_bytes, "bytes", algo,
                                        DigestChecksumType(prefix.bytes, checksum_type)))
         ELSE IF is_sub_class(obj_type, {"dict"})
         THEN _checksum(o, DictItemsType, obj_type, algo, allow, NoDependsOn)
         ELSE Raise("UnhandledContainerType")
    ELSE IF is_sub_class(obj_type, {"function"})
    THEN _checksum(Container("tuple", o.items), "tuple", obj_type, algo, allow, NoDependsOn)
    ELSE LET prefix == type_to_prefix(checksum_type, DEFAULT_ALLOW_UNREGISTERED)
         IN  IF ~prefix.ok THEN prefix
             ELSE Ok(prefix.bytes \o
                     data_checksum(o.val, obj_type, algo,
                                   DigestChecksumType(prefix.bytes, checksum_type)))

\* checksum(obj, hash_algo, allow_unregistered, depends_on)
checksum(o, algo, allow, deps) ==
    _checksum(o, o.type, o.type, algo, allow, deps)

-----------------------------------------------------------------------------
(* The inputs drawn by the model *)

SeqsUpTo(S, n) == UNION {[1..k -> S] : k \in 0..n}

Injective(seq) == \A i, j \in DOMAIN seq : i # j => seq[i] # seq[j]

Tuple12 == Container("tuple", <<Int1, Int2>>)

DictA1 == Dict(<< <<StrA, Int1>> >>)

Scalars == {Int1, Int2, StrA, BoolT, Float3}

TupleValues == {Container("tuple", s) : s \in SeqsUpTo({Int1, Int2, StrA, Tuple12}, MaxLen)}

ListValues == {Container("list", s) : s \in SeqsUpTo({Int1, BoolT, DictA1}, MaxLen)}

DequeValues == {Container("deque", s) : s \in SeqsUpTo({Int1, Int2}, MaxLen)}

\* instances of two user subclasses of list
SubclassValues == {Container(t, s) : t \in {"ListA", "ListB"}, s \in SeqsUpTo({Int1, Int2}, MaxLen)}

\* the elements of a set are hashable and pairwise unequal
SetValues ==
    {Container("set", s) : s \in {q \in SeqsUpTo({Int1, Int2, StrA, Tuple12}, MaxLen) : Injective(q)}}

DictKeys == {StrA, Int2, Float3}

DictVals == {Int1, BoolT, DictA1}

\* the keys of a dict are pairwise unequal
DictValues ==
    {Dict(ps) : ps \in {q \in SeqsUpTo(DictKeys \X DictVals, MaxLen) :
                            \A i, j \in DOMAIN q : i # j => q[i][1] # q[j][1]}}

RECURSIVE NestedDict(_)
\* {depth-1: {... {0: {'a': 'a'}}}}
NestedDict(depth) ==
    IF depth = 0 THEN Dict(<< <<StrA, StrA>> >>)
    ELSE Dict(<< <<Scalar("int", <<depth - 1>>), NestedDict(depth - 1)>> >>)

NestedValues == {NestedDict(d) : d \in 0..MaxDepth}

\* a function: its stripped source, its attributes and its module's name
FunctionValue ==
    [type |-> "function", val |-> <<>>,
     items |-> <<Scalar("str", <<100, 101, 102>>), Dict(<<>>), Scalar("str", <<109>>)>>]

\* an instance of a class the library knows nothing of
ObjectValue == Scalar("object", <<>>)

\* a tuple that holds an instance of an unregistered subclass of list
NestedSubclassValue == Container("tuple", <<Container("ListA", <<Int1>>), Int1>>)

Values ==
    Scalars \cup TupleValues \cup ListValues \cup DequeValues \cup SubclassValues
        \cup SetValues \cup DictValues \cup NestedValues
        \cup {FunctionValue, ObjectValue, NestedSubclassValue}

DependsOnChoices == {NoDependsOn} \cup {DependsOn(ids) : ids \in SUBSET DependencyNames}

-----------------------------------------------------------------------------
(* Return values of the operations of the Checksum class *)

NoRet == [ok |-> TRUE, error |-> "", kind |-> "none", bytes |-> <<>>, chars |-> <<>>,
          bool |-> FALSE, type |-> "", ref |-> 0]

RetRaise(e) == [NoRet EXCEPT !.ok = FALSE, !.error = e]

RetStr(c) == [NoRet EXCEPT !.kind = "str", !.chars = c]

RetBool(b) == [NoRet EXCEPT !.kind = "bool", !.bool = b]

RetType(t) == [NoRet EXCEPT !.kind = "type", !.type = t]

\* operands handed to from_checksum and ==
NoOperand == [kind |-> "none", bytes |-> <<>>, chars |-> <<>>, ref |-> 0]

BytesOperand(b) == [NoOperand EXCEPT !.kind = "bytes", !.bytes = b]

StrOperand(c) == [NoOperand EXCEPT !.kind = "str", !.chars = c]

ChecksumOperand(i) == [NoOperand EXCEPT !.kind = "Checksum", !.ref = i]

\* an object that is neither bytes, str nor Checksum, and has no attribute
\* checksum_bytes
OtherOperand == [NoOperand EXCEPT !.kind = "other"]

\* an object of another class that has an attribute checksum_bytes
DuckOperand(b) == [NoOperand EXCEPT !.kind = "duck", !.bytes = b]

NoLast == [op |-> "init", self |-> 0, other |-> NoOperand, ret |-> NoRet]

-----------------------------------------------------------------------------
(* bytes.hex and bytes.fromhex *)

HexDigits == <<"0", "1", "2", "3", "4", "5", "6", "7", "8", "9", "a", "b", "c", "d", "e", "f">>

UpperDigits == <<"0", "1", "2", "3", "4", "5", "6", "7", "8", "9", "A", "B", "C", "D", "E", "F">>

RECURSIVE hex(_)
\* bytes.hex(): two lowercase digits per byte
hex(b) ==
    IF b = <<>> THEN <<>>
    ELSE <<HexDigits[(Head(b) \div 16) + 1], HexDigits[(Head(b) % 16) + 1]>> \o hex(Tail(b))

IsHexDigit(c) == \E i \in 1..16 : HexDigits[i] = c \/ UpperDigits[i] = c

DigitValue(c) == (CHOOSE i \in 1..16 : HexDigits[i] = c \/ UpperDigits[i] = c) - 1

\* the ASCII whitespace bytes.fromhex skips: space, tab, line feed, carriage
\* return, form feed and (the last, written as the character itself)
\* vertical tab
Whitespace == {" ", "\t", "\n", "\r", "\f", ""}

RECURSIVE fromhex(_)
\* bytes.fromhex(string): digits of either case, ASCII whitespace skipped
\* between bytes; ValueError otherwise
fromhex(c) ==
    IF c = <<>> THEN Ok(<<>>)
    ELSE IF Head(c) \in Whitespace THEN fromhex(Tail(c))
    ELSE IF Len(c) < 2 \/ ~IsHexDigit(c[1]) \/ ~IsHexDigit(c[2]) THEN Raise("ValueError")
    ELSE LET rest == fromhex(Tail(Tail(c)))
         IN  IF rest.ok THEN Ok(<<16 * DigitValue(c[1]) + DigitValue(c[2])>> \o rest.bytes)
             ELSE rest

RECURSIVE upper(_)
\* str.upper() on a hex string
upper(c) ==
    IF c = <<>> THEN <<>>
    ELSE LET i == CHOOSE k \in 1..16 : HexDigits[k] = Head(c) \/ UpperDigits[k] = Head(c)
         IN  <<UpperDigits[i]>> \o upper(Tail(c))

-----------------------------------------------------------------------------
(* The functions of the library, called on drawn inputs *)

\* checksum_hex(obj, hash_algo)
checksum_hex(o, algo) ==
    LET r == checksum(o, algo, DEFAULT_ALLOW_UNREGISTERED, NoDependsOn)
    IN  IF r.ok THEN RetStr(hex(r.bytes)) ELSE RetRaise(r.error)

\* the arguments of one call are drawn, no call made yet
Init ==
    /\ obj \in Values
    /\ hash_algo \in HashAlgos
    /\ allow_unregistered \in BOOLEAN
    /\ depends_on \in DependsOnChoices
    /\ result = Raise("")
    /\ instances = <<>>
    /\ last = NoLast

\* checksum(obj, hash_algo, allow_unregistered, depends_on)
CallChecksum ==
    /\ last.op = "init"
    /\ result' = checksum(obj, hash_algo, allow_unregistered, depends_on)
    /\ last' = [NoLast EXCEPT !.op = "checksum"]
    /\ UNCHANGED <<obj, hash_algo, allow_unregistered, depends_on, instances>>

\* checksum_hex(obj, hash_algo): the other arguments keep their defaults
CallChecksumHex ==
    /\ last.op = "init"
    /\ allow_unregistered = DEFAULT_ALLOW_UNREGISTERED
    /\ depends_on = NoDependsOn
    /\ result' = checksum(obj, hash_algo, DEFAULT_ALLOW_UNREGISTERED, NoDependsOn)
    /\ last' = [NoLast EXCEPT !.op = "checksum_hex", !.ret = checksum_hex(obj, hash_algo)]
    /\ UNCHANGED <<obj, hash_algo, allow_unregistered, depends_on, instances>>

NextChecksum == CallChecksum \/ CallChecksumHex

SpecChecksum == Init /\ [][NextChecksum]_vars

-----------------------------------------------------------------------------
(* The Checksum class.  instances holds the Checksum objects the caller    *)
(* keeps, each with its _checksum_bytes; an object made when MaxInstances  *)
(* are kept is returned and dropped.                                       *)

\* mutant: bytes that are no well-formed checksum are rejected
_checksum_to_bytes_validating(checksum_obj) ==
    IF checksum_obj.kind = "bytes"
    THEN IF checksum_to_type(checksum_obj.bytes).ok
              /\ Len(checksum_obj.bytes) = PREFIX_BYTES + DigestLength(DEFAULT_HASH_ALGO)
         THEN Ok(checksum_obj.bytes) ELSE Raise("InvalidChecksum")
    ELSE IF checksum_obj.kind = "str" THEN fromhex(checksum_obj.chars)
    ELSE IF checksum_obj.kind = "Checksum" THEN Ok(instances[checksum_obj.ref].checksum_bytes)
    ELSE Raise("InvalidChecksum")

\* _checksum_to_bytes(checksum_obj)
_checksum_to_bytes(checksum_obj) ==
    IF checksum_obj.kind = "bytes" THEN Ok(checksum_obj.bytes)
    ELSE IF checksum_obj.kind = "str" THEN fromhex(checksum_obj.chars)
    ELSE IF checksum_obj.kind = "Checksum" THEN Ok(instances[checksum_obj.ref].checksum_bytes)
    ELSE Raise("InvalidChecksum")

\* Checksum.__init__(obj, is_checksum, **kwargs): the bytes of the new object
Checksum__init__(o, operand, is_checksum, algo, allow, deps) ==
    IF is_checksum THEN _checksum_to_bytes(operand)
    ELSE checksum(o, algo, allow, deps)

\* other.checksum_bytes: the property of a Checksum, the attribute of an
\* object of another class that has one, AttributeError otherwise
checksum_bytes(other) ==
    IF other.kind = "Checksum" THEN Ok(instances[other.ref].checksum_bytes)
    ELSE IF other.kind = "duck" THEN Ok(other.bytes)
    ELSE Raise("AttributeError")

\* mutant: a string is compared through the bytes it denotes
Checksum__eq__fromhex(self, other) ==
    IF other.kind = "bytes" THEN RetBool(self.checksum_bytes = other.bytes)
    ELSE IF other.kind = "str"
    THEN RetBool(fromhex(other.chars).ok /\ self.checksum_bytes = fromhex(other.chars).bytes)
    ELSE LET attr == checksum_bytes(other)
         IN  IF attr.ok THEN RetBool(self.checksum_bytes = attr.bytes)
             ELSE RetRaise(attr.error)

\* Checksum.__eq__(self, other)
Checksum__eq__(self, other) ==
    IF other.kind = "bytes" THEN RetBool(self.checksum_bytes = other.bytes)
    ELSE IF other.kind = "str" THEN RetBool(hex(self.checksum_bytes) = other.chars)
    ELSE LET attr == checksum_bytes(other)
         IN  IF attr.ok THEN RetBool(self.checksum_bytes = attr.bytes)
             ELSE RetRaise(attr.error)

\* mutant: the operands are joined the other way round
Checksum__add__swapped(self, other) ==
    _checksum(Scalar("bytes", other.checksum_bytes \o self.checksum_bytes), "bytes",
              "ChecksumCollection", DEFAULT_HASH_ALGO, DEFAULT_ALLOW_UNREGISTERED, NoDependsOn)

\* Checksum.__add__(self, other): the bytes handed to from_checksum
Checksum__add__(self, other) ==
    _checksum(Scalar("bytes", self.checksum_bytes \o other.checksum_bytes), "bytes",
              "ChecksumCollection", DEFAULT_HASH_ALGO, DEFAULT_ALLOW_UNREGISTERED, NoDependsOn)

\* Checksum.type
Checksum_type(self) ==
    LET t == checksum_to_type(self.checksum_bytes)
    IN  IF t.ok THEN RetType(t.type) ELSE RetRaise(t.error)

\* Checksum.hex()
Checksum_hex(self) == RetStr(hex(self.checksum_bytes))

\* Checksum.__repr__()
Checksum__repr__(self) ==
    RetStr(<<"Checksum('">> \o hex(self.checksum_bytes) \o <<"',is_checksum=True)">>)

\* Checksum.__str__(): the name of the type and the hex of the digest
Checksum__str__(self) ==
    LET t == checksum_to_type(self.checksum_bytes)
        h == hex(self.checksum_bytes)
    IN  IF t.ok
        THEN RetStr(<<"Checksum(", t.type, ":">>
                    \o (IF Len(h) > PREFIX_BYTES * 2 THEN SubSeq(h, PREFIX_BYTES * 2 + 1, Len(h)) ELSE <<>>)
                    \o <<")">>)
        ELSE RetRaise(t.error)

\* the objects the model makes Checksum objects of
ClassValues == {StrA, Tuple12, ObjectValue}

ValidBytes == checksum(StrA, DEFAULT_HASH_ALGO, DEFAULT_ALLOW_UNREGISTERED, NoDependsOn).bytes

Digest(b) == SubSeq(b, PREFIX_BYTES + 1, Len(b))

\* a valid checksum; one a byte short; one with a prefix of no type; one
\* with the reserved invalid prefix
BytesOperands ==
    {BytesOperand(ValidBytes),
     BytesOperand(SubSeq(ValidBytes, 1, Len(ValidBytes) - 1)),
     BytesOperand(<<9, 9>> \o Digest(ValidBytes)),
     BytesOperand(RESERVED_INVALID_PREFIX \o Digest(ValidBytes))}

\* the hex of a valid checksum, the same in upper case, the same with a tab
\* after the prefix, a string that is no hex
StrOperands ==
    {StrOperand(hex(ValidBytes)), StrOperand(upper(hex(ValidBytes))),
     StrOperand(hex(SubSeq(ValidBytes, 1, PREFIX_BYTES)) \o <<"\t">> \o hex(Digest(ValidBytes))),
     StrOperand(<<"z", "z">>)}

\* objects of another class with the attribute checksum_bytes: the bytes of a
\* valid checksum, and the same a byte short
DuckOperands ==
    {DuckOperand(ValidBytes), DuckOperand(SubSeq(ValidBytes, 1, Len(ValidBytes) - 1))}

Operands ==
    BytesOperands \cup StrOperands \cup DuckOperands \cup {OtherOperand}
        \cup {ChecksumOperand(i) : i \in DOMAIN instances}

\* the caller keeps the new object while there is room
Keep(b) ==
    IF Len(instances) < MaxInstances THEN Append(instances, [checksum_bytes |-> b])
    ELSE instances

Made(b) == [NoRet EXCEPT !.kind = "Checksum", !.bytes = b]

InitClass ==
    /\ obj = StrA
    /\ hash_algo = DEFAULT_HASH_ALGO
    /\ allow_unregistered = DEFAULT_ALLOW_UNREGISTERED
    /\ depends_on = NoDependsOn
    /\ result = Raise("")
    /\ instances = <<>>
    /\ last = NoLast

\* Checksum(obj) and Checksum.checksum(obj)
New(o) ==
    LET r == Checksum__init__(o, NoOperand, FALSE, DEFAULT_HASH_ALGO,
                              DEFAULT_ALLOW_UNREGISTERED, NoDependsOn)
    IN  /\ instances' = IF r.ok THEN Keep(r.bytes) ELSE instances
        /\ last' = [NoLast EXCEPT !.op = "Checksum",
                                  !.ret = IF r.ok THEN Made(r.bytes) ELSE RetRaise(r.error)]
        /\ UNCHANGED <<obj, hash_algo, allow_unregistered, depends_on, result>>

\* Checksum.from_checksum(obj)
FromChecksum(operand) ==
    LET r == Checksum__init__(StrA, operand, TRUE, DEFAULT_HASH_ALGO,
                              DEFAULT_ALLOW_UNREGISTERED, NoDependsOn)
    IN  /\ instances' = IF r.ok THEN Keep(r.bytes) ELSE instances
        /\ last' = [NoLast EXCEPT !.op = "from_checksum", !.other = operand,
                                  !.ret = IF r.ok THEN Made(r.bytes) ELSE RetRaise(r.error)]
        /\ UNCHANGED <<obj, hash_algo, allow_unregistered, depends_on, result>>

\* a method that returns without making an object
Query(op, i, operand, ret) ==
    /\ last' = [op |-> op, self |-> i, other |-> operand, ret |-> ret]
    /\ UNCHANGED <<obj, hash_algo, allow_unregistered, depends_on, result, instances>>

Type(i) == Query("type", i, NoOperand, Checksum_type(instances[i]))

Hex(i) == Query("hex", i, NoOperand, Checksum_hex(instances[i]))

Repr(i) == Query("__repr__", i, NoOperand, Checksum__repr__(instances[i]))

Str(i) == Query("__str__", i, NoOperand, Checksum__str__(instances[i]))

Eq(i, operand) == Query("__eq__", i, operand, Checksum__eq__(instances[i], operand))

\* self + other: the combined checksum, wrapped by from_checksum
Add(i, j) ==
    LET c == Checksum__add__(instances[i], instances[j])
        r == IF c.ok
             THEN Checksum__init__(StrA, BytesOperand(c.bytes), TRUE, DEFAULT_HASH_ALGO,
                                   DEFAULT_ALLOW_UNREGISTERED, NoDependsOn)
             ELSE c
    IN  /\ instances' = IF r.ok THEN Keep(r.bytes) ELSE instances
        /\ last' = [op |-> "__add__", self |-> i, other |-> ChecksumOperand(j),
                    ret |-> IF r.ok THEN Made(r.bytes) ELSE RetRaise(r.error)]
        /\ UNCHANGED <<obj, hash_algo, allow_unregistered, depends_on, result>>

NextClass ==
    \/ \E o \in ClassValues : New(o)
    \/ \E operand \in Operands : FromChecksum(operand)
    \/ \E i \in DOMAIN instances : Type(i)
    \/ \E i \in DOMAIN instances : Hex(i)
    \/ \E i \in DOMAIN instances : Repr(i)
    \/ \E i \in DOMAIN instances : Str(i)
    \/ \E i \in DOMAIN instances, operand \in Operands : Eq(i, operand)
    \/ \E i, j \in DOMAIN instances : Add(i, j)

SpecClass == InitClass /\ [][NextClass]_vars

Next == NextChecksum \/ NextClass

Spec == Init /\ [][Next]_vars

-----------------------------------------------------------------------------
(* Properties of checksum() *)

\* every iteration order of the same elements
Reorderings(seq) ==
    {[i \in DOMAIN seq |-> seq[f[i]]] : f \in Permutations(DOMAIN seq)}

\* the checksums of the elements, in iteration order
ElementChecksums(o, algo, allow) ==
    [i \in DOMAIN o.items |-> checksum(o.items[i], algo, allow, NoDependsOn).bytes]

Prefix(b) == SubSeq(b, 1, PREFIX_BYTES)

Registered(t) == t \in TableKeys \cup ExtraKeys

\* the call just made, with depends_on=None instead
Plain(o) == checksum(o, hash_algo, allow_unregistered, NoDependsOn)

\* C1: the checksum of a set is the same for every iteration order of its
\* elements
C1_UnorderedInvariant ==
    (last.op = "checksum" /\ is_sub_class(obj.type, UNORDERED_CONTAINER_TYPES))
        => \A p \in Reorderings(obj.items) :
               checksum(Container(obj.type, p), hash_algo, allow_unregistered, depends_on) = result

\* a set was checksummed whose element checksums did not come out sorted
C1_Witness ==
    /\ last.op = "checksum"
    /\ obj.type = "set"
    /\ Len(obj.items) = MaxLen
    /\ result.ok
    /\ LET bs == ElementChecksums(obj, hash_algo, allow_unregistered)
       IN  sorted(bs) # bs

\* C2: the checksum of a dict is the same for every insertion order of its
\* pairs; it is the dict prefix followed by the digest of the sorted checksums
\* of its (key, value) tuples
C2_DictOrderInvariant ==
    (last.op = "checksum" /\ obj.type = "dict")
        => /\ \A p \in Reorderings(obj.items) :
                  checksum(Container("dict", p), hash_algo, allow_unregistered, depends_on) = result
           /\ (depends_on.none /\ result.ok)
                  => result.bytes =
                        TableGet("dict") \o
                        Hash(hash_algo,
                             Concat(sorted(ElementChecksums(obj, hash_algo, allow_unregistered))))

\* a dict with keys of different types was checksummed whose pair checksums
\* did not come out sorted
C2_Witness ==
    /\ last.op = "checksum"
    /\ obj.type = "dict"
    /\ Len(obj.items) = MaxLen
    /\ \E i, j \in DOMAIN obj.items : obj.items[i].items[1].type # obj.items[j].items[1].type
    /\ result.ok
    /\ depends_on.none
    /\ LET bs == ElementChecksums(obj, hash_algo, allow_unregistered)
       IN  sorted(bs) # bs

OrderedTypes == {"tuple", "list", "deque"}

\* C3: two tuples (lists, deques) with different element sequences have
\* different checksums
C3_OrderedSensitive ==
    (last.op = "checksum" /\ obj.type \in OrderedTypes /\ result.ok)
        => \A o2 \in Values :
               (o2.type = obj.type /\ o2.items # obj.items)
                   => checksum(o2, hash_algo, allow_unregistered, depends_on) # result

\* an ordered container was checksummed that has another iteration order
C3_Witness ==
    /\ last.op = "checksum"
    /\ obj.type \in OrderedTypes
    /\ result.ok
    /\ \E p \in Reorderings(obj.items) : p # obj.items /\ Container(obj.type, p) \in Values

\* C4: a checksum with a non-empty set of dependencies differs from the plain
\* checksum and carries the prefix of the value's own type, which is the type
\* recovered from it
C4_DependencyFold ==
    (last.op = "checksum" /\ ~depends_on.none /\ depends_on.ids # {} /\ result.ok)
        => /\ result # Plain(obj)
           /\ Prefix(result.bytes) = type_to_prefix(obj.type, allow_unregistered).bytes
           /\ Registered(obj.type)
                  => /\ checksum_to_type(result.bytes).ok
                     /\ checksum_to_type(result.bytes).type = obj.type

\* a value that is no tuple was checksummed with a dependency
C4_Witness ==
    /\ last.op = "checksum"
    /\ depends_on = DependsOn({"pytest"})
    /\ obj.type = "str"
    /\ result.ok

\* C5: a checksum is the 2-byte prefix of the value's type followed by a
\* digest of the algorithm's length, and the type is recovered from it
C5_Layout ==
    (last.op = "checksum" /\ result.ok)
        => /\ Len(result.bytes) = PREFIX_BYTES + DigestLength(hash_algo)
           /\ \A i \in DOMAIN result.bytes : result.bytes[i] \in Byte
           /\ Registered(obj.type)
                  => /\ Prefix(result.bytes) = type_to_prefix(obj.type, FALSE).bytes
                     /\ checksum_to_type(result.bytes).ok
                     /\ checksum_to_type(result.bytes).type = obj.type

\* the deepest nested dict was checksummed
C5_Witness ==
    /\ last.op = "checksum"
    /\ obj = NestedDict(MaxDepth)
    /\ depends_on.none
    /\ result.ok

\* C10 as claimed: without dependencies, or with an empty collection of them,
\* the result is the plain checksum
C10_EmptyNotFolded ==
    (last.op = "checksum" /\ (depends_on.none \/ depends_on.ids = {}))
        => result = Plain(obj)

\* C10: with depends_on=None the value is checksummed as it is; with any
\* collection of dependencies, the empty one too, the result is the prefix of
\* the value's type followed by the digest of the plain checksums of the
\* value and of the resolved dependencies
C10_FoldWhenGiven ==
    (last.op = "checksum" /\ result.ok)
        => /\ depends_on.none => result = Plain(obj)
           /\ ~depends_on.none
                  => LET prefix == type_to_prefix(obj.type, allow_unregistered).bytes
                         deps == checksum(resolve_dependencies(depends_on.ids), hash_algo,
                                          allow_unregistered, NoDependsOn)
                     IN  result.bytes =
                            prefix \o
                            data_checksum(Plain(obj).bytes \o deps.bytes, "bytes", hash_algo,
                                          IF prefix = UNREGISTERED_TYPE_PREFIX
                                          THEN obj.type ELSE "")

\* a container was checksummed with an empty collection of dependencies
C10_Witness ==
    /\ last.op = "checksum"
    /\ depends_on = DependsOn({})
    /\ obj.type = "list"
    /\ Len(obj.items) > 0
    /\ result.ok
    /\ result # Plain(obj)

-----------------------------------------------------------------------------
(* Properties of the type registry *)

TablePrefixes == {TYPE_TO_PREFIX[i][2] : i \in DOMAIN TYPE_TO_PREFIX}

ExtraPrefixes == {EXTRA_TYPE_TO_PREFIX[i][2] : i \in DOMAIN EXTRA_TYPE_TO_PREFIX}

IsPrefix(p) == Len(p) = PREFIX_BYTES /\ \A k \in DOMAIN p : p[k] \in Byte

\* C6: every prefix is 2 bytes; the prefixes of the registered types and the
\* reserved ones are pairwise distinct; PREFIX_TO_TYPE inverts TYPE_TO_PREFIX;
\* no checksum carries the reserved invalid prefix
C6_PrefixesDistinct ==
    /\ \A i \in DOMAIN TYPE_TO_PREFIX : IsPrefix(TYPE_TO_PREFIX[i][2])
    /\ \A p \in ExtraPrefixes \cup SPECIAL_PREFIXES : IsPrefix(p)
    /\ \A i, j \in DOMAIN TYPE_TO_PREFIX :
          i # j => /\ TYPE_TO_PREFIX[i][1] # TYPE_TO_PREFIX[j][1]
                   /\ TYPE_TO_PREFIX[i][2] # TYPE_TO_PREFIX[j][2]
    /\ TablePrefixes \cap (SPECIAL_PREFIXES \cup ExtraPrefixes) = {}
    /\ ExtraPrefixes \cap SPECIAL_PREFIXES = {}
    /\ Cardinality(ExtraPrefixes) = Len(EXTRA_TYPE_TO_PREFIX)
    /\ RESERVED_INVALID_PREFIX # UNREGISTERED_TYPE_PREFIX
    /\ DOMAIN PREFIX_TO_TYPE = TablePrefixes
    /\ \A t \in TableKeys : PREFIX_TO_TYPE[TableGet(t)] = t
    /\ \A p \in DOMAIN PREFIX_TO_TYPE : TableGet(PREFIX_TO_TYPE[p]) = p
    /\ (last.op = "checksum" /\ result.ok)
          => /\ Prefix(result.bytes) # RESERVED_INVALID_PREFIX
             /\ obj.type \in TableKeys => PREFIX_TO_TYPE[Prefix(result.bytes)] = obj.type

\* a deque, the last but one entry of the table, was checksummed
C6_Witness ==
    /\ last.op = "checksum"
    /\ obj.type = "deque"
    /\ result.ok
    /\ Prefix(result.bytes) \in DOMAIN PREFIX_TO_TYPE

-----------------------------------------------------------------------------
(* Properties of the Checksum class *)

Self == instances[last.self].checksum_bytes

DataPrefixes == TablePrefixes \cup {ExtraGet("set"), ExtraGet("function")}

\* C7: a + b returns a new Checksum of the checksum-collection prefix, which
\* no data type has, followed by the digest of a's bytes then b's bytes; the
\* objects kept before are left as they were
C7_Add ==
    [][last'.op = "__add__"
          => LET a == instances[last'.self].checksum_bytes
                 b == instances[last'.other.ref].checksum_bytes
                 c == last'.ret
             IN  /\ c.ok
                 /\ c.kind = "Checksum"
                 /\ c.bytes = ExtraGet("ChecksumCollection") \o Hash(DEFAULT_HASH_ALGO, a \o b)
                 /\ checksum_to_type(c.bytes).ok
                 /\ checksum_to_type(c.bytes).type = "ChecksumCollection"
                 /\ Prefix(c.bytes) \notin DataPrefixes
                 /\ \A i \in DOMAIN instances : instances'[i] = instances[i]
                 /\ Len(instances) < MaxInstances
                       => instances' = Append(instances, [checksum_bytes |-> c.bytes])]_vars

\* two Checksum objects of different bytes were added
C7_Witness ==
    /\ last.op = "__add__"
    /\ last.self # last.other.ref
    /\ Self # instances[last.other.ref].checksum_bytes
    /\ last.ret.ok
    /\ last.ret.kind = "Checksum"

\* bytes are a well-formed checksum: a registered prefix and a digest of the
\* length of some algorithm
WellFormed(b) ==
    /\ \E algo \in HashAlgos : Len(b) = PREFIX_BYTES + DigestLength(algo)
    /\ Prefix(b) # RESERVED_INVALID_PREFIX
    /\ Prefix(b) \in TablePrefixes \cup ExtraPrefixes

InvalidChecksum(ret) == ~ret.ok /\ ret.error = "InvalidChecksum"

\* C8 as claimed: wrapping bytes that are no well-formed checksum, or reading
\* the type of such bytes, fails with InvalidChecksum
C8_MalformedRejected ==
    /\ (last.op = "from_checksum" /\ last.other.kind = "bytes" /\ ~WellFormed(last.other.bytes))
          => InvalidChecksum(last.ret)
    /\ (last.op = "type" /\ ~WellFormed(Self)) => InvalidChecksum(last.ret)

\* C8: from_checksum wraps bytes as they are, well-formed or not, and fails
\* with InvalidChecksum only for an operand that is neither bytes, str nor
\* Checksum; the type of bytes whose prefix is the reserved invalid one or
\* that of no type fails with InvalidChecksum
C8_WrapUnvalidated ==
    /\ last.op = "from_checksum"
          => /\ last.other.kind = "bytes"
                   => /\ last.ret.ok
                      /\ last.ret.kind = "Checksum"
                      /\ last.ret.bytes = last.other.bytes
             /\ InvalidChecksum(last.ret) <=> last.other.kind \notin {"bytes", "str", "Checksum"}
    /\ (last.op = "type" /\ Len(Self) >= PREFIX_BYTES
           /\ Prefix(Self) \notin TablePrefixes \cup ExtraPrefixes)
          => InvalidChecksum(last.ret)

\* the type was read of a kept object that wraps bytes with the reserved
\* invalid prefix
C8_Witness ==
    /\ last.op = "type"
    /\ Len(Self) >= PREFIX_BYTES
    /\ Prefix(Self) = RESERVED_INVALID_PREFIX
    /\ InvalidChecksum(last.ret)

ChecksumLike == {"bytes", "str", "Checksum"}

\* C9 as claimed: c == r exactly when from_checksum(r) holds the bytes of c
C9_EqualIffSameBytes ==
    (last.op = "__eq__" /\ last.other.kind \in ChecksumLike)
        => /\ last.ret.ok
           /\ last.ret.bool <=> (/\ _checksum_to_bytes(last.other).ok
                                 /\ _checksum_to_bytes(last.other).bytes = Self)

\* C9: c == r exactly when r is the bytes of c, the lower-case hex string of
\* them, or a Checksum of the same bytes; then from_checksum(r) holds the
\* bytes of c.  An operand of another class is compared through its attribute
\* checksum_bytes.  The hex of a wrapped checksum(x) is checksum_hex(x).
C9_EqualOnBytesOrHex ==
    /\ (last.op = "__eq__" /\ last.other.kind = "duck")
          => /\ last.ret.ok
             /\ last.ret.kind = "bool"
             /\ last.ret.bool <=> last.other.bytes = Self
    /\ (last.op = "__eq__" /\ last.other.kind \in ChecksumLike)
          => /\ last.ret.ok
             /\ last.ret.kind = "bool"
             /\ last.ret.bool <=>
                   CASE last.other.kind = "bytes" -> last.other.bytes = Self
                     [] last.other.kind = "str" -> last.other.chars = hex(Self)
                     [] OTHER -> instances[last.other.ref].checksum_bytes = Self
             /\ last.ret.bool => /\ _checksum_to_bytes(last.other).ok
                                 /\ _checksum_to_bytes(last.other).bytes = Self
    /\ last.op = "hex"
          => \A x \in ClassValues :
                LET r == checksum(x, DEFAULT_HASH_ALGO, DEFAULT_ALLOW_UNREGISTERED, NoDependsOn)
                IN  (r.ok /\ Self = r.bytes) => last.ret = checksum_hex(x, DEFAULT_HASH_ALGO)

\* a Checksum was compared with the upper-case hex string of its own bytes
C9_Witness ==
    /\ last.op = "__eq__"
    /\ last.other.kind = "str"
    /\ last.other.chars # hex(Self)
    /\ fromhex(last.other.chars).ok
    /\ fromhex(last.other.chars).bytes = Self
    /\ last.ret.ok
    /\ ~last.ret.bool

\* the content the call just made feeds to its digest, apart from any type
\* identity: the bytes of a scalar, the joined checksums of the elements of a
\* container (sorted for a set and for the items of a dict), the joined
\* checksums of the value and of the resolved dependencies when these are given
DigestContent(o, algo, allow, deps) ==
    IF ~deps.none
    THEN checksum(o, algo, allow, NoDependsOn).bytes
             \o checksum(resolve_dependencies(deps.ids), algo, allow, NoDependsOn).bytes
    ELSE IF is_sub_class(o.type, UNORDERED_CONTAINER_TYPES \cup {"dict"})
    THEN Concat(sorted(ElementChecksums(o, algo, allow)))
    ELSE IF is_sub_class(o.type, CONTAINER_TYPES \cup {"function"})
    THEN Concat(ElementChecksums(o, algo, allow))
    ELSE o.val

\* the types of the model that are subclasses of a container family and have
\* no prefix of their own
UnregisteredContainerTypes ==
    {t \in Types : ~Registered(t) /\ is_sub_class(t, ALL_SUBCLASS_TYPES)}

\* the value or one of its elements is of a type with no prefix of its own
HoldsUnregistered(o) ==
    ~Registered(o.type) \/ \E i \in DOMAIN o.items : ~Registered(o.items[i].type)

\* C11: a checksum under the unregistered prefix is that of an unregistered
\* subclass of a container family computed with allow_unregistered set, its
\* digest is taken over the identity of the type followed by the content, and
\* the same content under another unregistered type has another checksum; a
\* checksum under a registered prefix has the digest of the content alone;
\* and with allow_unregistered false a value of, or holding an element of, an
\* unregistered type raises UnsupportedType
C11_UnregisteredRule ==
    last.op = "checksum"
        => LET content == DigestContent(obj, hash_algo, allow_unregistered, depends_on)
           IN  /\ (result.ok /\ Prefix(result.bytes) = UNREGISTERED_TYPE_PREFIX)
                      => /\ allow_unregistered
                         /\ obj.type \in UnregisteredContainerTypes
                         /\ Digest(result.bytes)
                                = Hash(hash_algo, TypeIdentity(obj.type) \o content)
                         /\ Digest(result.bytes) # Hash(hash_algo, content)
                         /\ \A t \in UnregisteredContainerTypes \ {obj.type} :
                                LET r == checksum(Container(t, obj.items), hash_algo,
                                                  allow_unregistered, depends_on)
                                IN  /\ r.ok
                                    /\ Prefix(r.bytes) = UNREGISTERED_TYPE_PREFIX
                                    /\ r.bytes # result.bytes
               /\ (result.ok /\ Prefix(result.bytes) # UNREGISTERED_TYPE_PREFIX)
                      => /\ Registered(obj.type)
                         /\ Digest(result.bytes) = Hash(hash_algo, content)
               /\ (HoldsUnregistered(obj) /\ ~allow_unregistered)
                      => /\ ~result.ok
                         /\ result.error = "UnsupportedType"

\* an instance of an unregistered subclass of list was checksummed with
\* allow_unregistered set, and came out under the unregistered prefix
C11_Witness ==
    /\ last.op = "checksum"
    /\ obj = Container("ListA", <<Int1, Int2>>)
    /\ allow_unregistered
    /\ result.ok
    /\ Prefix(result.bytes) = UNREGISTERED_TYPE_PREFIX

=============================================================================
